---- MODULE Spec2Model ----
(***************************************************************************)
(* array_vector_space: the traits ArrayVectorSpace (owning operations) and *)
(* ArrayVectorSpaceMut (in-place operations), implemented for the scalar   *)
(* float types and, recursively, for fixed-size arrays [V; N].             *)
(*                                                                         *)
(* The scalar type $t is a binary floating-point format with signed       *)
(* zeros, subnormals, infinities and NaN, rounding to nearest with ties   *)
(* to even.  f32 and f64 are the formats with 24 and 53 bits of precision; *)
(* the format checked here has PBits bits of precision and the exponent    *)
(* range 1 - EMax .. EMax.  A finite value is sign and magnitude, the      *)
(* magnitude counted in units of the smallest subnormal.  All NaNs are     *)
(* one value.                                                              *)
(*                                                                         *)
(* A value of the static type described by shape (<<>> is $t, <<n>> \o s   *)
(* is [V; n] with V of shape s) is a float or a sequence of values.        *)
(***************************************************************************)
EXTENDS Integers, Sequences, FiniteSets, TLC

\* ------------------------------------------------------------ bounds
PBits == 5
EMax == 4
MaxLen == 3
MaxDepth == 2
MaxLeaves == 4

\* ------------------------------------------------------ the scalar type $t
EMin == 1 - EMax
\* 1.0, the largest finite value and the smallest normal value, in units.
OneMag == 2 ^ (PBits - 1 - EMin)
MaxMag == (2 ^ PBits - 1) * 2 ^ (EMax - EMin)
MinNormalMag == 2 ^ (PBits - 1)

Fin(s, m) == [k |-> "fin", s |-> s, m |-> m]
Inf(s) == [k |-> "inf", s |-> s, m |-> 0]
NaN == [k |-> "nan", s |-> 0, m |-> 0]
PZero == Fin(0, 0)
NZero == Fin(1, 0)
One == Fin(0, OneMag)

Floats ==
    {Fin(s, m) : s \in {0, 1}, m \in {n \in 0 .. MaxMag :
                     \E e \in 0 .. (EMax - EMin), c \in 0 .. (2 ^ PBits - 1) : n = c * 2 ^ e}}
    \cup {Inf(0), Inf(1), NaN}

IsNaN(a) == a.k = "nan"
IsZero(a) == a.k = "fin" /\ a.m = 0
Xor(s, t) == IF s = t THEN 0 ELSE 1

\* The spacing of the floats around the magnitude q: the least power of two s
\* with q < 2^PBits * s.
RECURSIVE Spacing(_, _)
Spacing(q, s) == IF q < (2 ^ PBits) * s THEN s ELSE Spacing(q, 2 * s)

\* The magnitude num/den (in units) rounded to nearest, ties to even;
\* MaxMag + 1 stands for overflow.
RoundMag(num, den) ==
    LET q == num \div den IN
    IF q >= 2 * MaxMag THEN MaxMag + 1
    ELSE LET s == Spacing(q, 1)
             lo == (q \div s) * s
             hi == lo + s
             pick == IF 2 * num < (lo + hi) * den THEN lo
                     ELSE IF 2 * num > (lo + hi) * den THEN hi
                     ELSE IF (lo \div s) % 2 = 0 THEN lo ELSE hi
         IN IF pick > MaxMag THEN MaxMag + 1 ELSE pick

Pack(s, num, den) ==
    LET r == RoundMag(num, den) IN IF r > MaxMag THEN Inf(s) ELSE Fin(s, r)

\* A non-NaN float on the extended number line, in units.
Ord(a) ==
    LET v == IF a.k = "inf" THEN MaxMag + 1 ELSE a.m IN IF a.s = 1 THEN 0 - v ELSE v

FNeg(a) == IF IsNaN(a) THEN NaN ELSE [a EXCEPT !.s = 1 - a.s]

\* a + b
FAdd(a, b) ==
    IF IsNaN(a) \/ IsNaN(b) THEN NaN
    ELSE IF a.k = "inf" THEN (IF b.k = "inf" /\ b.s # a.s THEN NaN ELSE a)
    ELSE IF b.k = "inf" THEN b
    ELSE LET sum == Ord(a) + Ord(b) IN
         IF sum = 0 THEN (IF a.s = 1 /\ b.s = 1 THEN NZero ELSE PZero)
         ELSE IF sum < 0 THEN Pack(1, 0 - sum, 1) ELSE Pack(0, sum, 1)

\* a - b
FSub(a, b) == FAdd(a, FNeg(b))

\* a * b
FMul(a, b) ==
    IF IsNaN(a) \/ IsNaN(b) THEN NaN
    ELSE IF a.k = "inf" \/ b.k = "inf"
         THEN (IF IsZero(a) \/ IsZero(b) THEN NaN ELSE Inf(Xor(a.s, b.s)))
    ELSE IF IsZero(a) \/ IsZero(b) THEN Fin(Xor(a.s, b.s), 0)
    ELSE IF a.m > (2 * MaxMag * OneMag) \div b.m THEN Inf(Xor(a.s, b.s))
    ELSE Pack(Xor(a.s, b.s), a.m * b.m, OneMag)

\* a / b
FDiv(a, b) ==
    IF IsNaN(a) \/ IsNaN(b) THEN NaN
    ELSE IF a.k = "inf" THEN (IF b.k = "inf" THEN NaN ELSE Inf(Xor(a.s, b.s)))
    ELSE IF b.k = "inf" THEN Fin(Xor(a.s, b.s), 0)
    ELSE IF IsZero(b) THEN (IF IsZero(a) THEN NaN ELSE Inf(Xor(a.s, b.s)))
    ELSE Pack(Xor(a.s, b.s), a.m * OneMag, b.m)

\* The integer square root of q, given lo * lo <= q < hi * hi, by bisection.
RECURSIVE ISqrt(_, _, _)
ISqrt(q, lo, hi) ==
    IF hi - lo <= 1 THEN lo
    ELSE LET mid == (lo + hi) \div 2 IN
         IF mid * mid <= q THEN ISqrt(q, mid, hi) ELSE ISqrt(q, lo, mid)

\* a.sqrt(): the square root of the magnitude m (in units) is sqrt(m * OneMag)
\* units; it is rounded to nearest by comparing squares.
FSqrt(a) ==
    IF IsNaN(a) THEN NaN
    ELSE IF IsZero(a) THEN a
    ELSE IF a.s = 1 THEN NaN
    ELSE IF a.k = "inf" THEN a
    ELSE LET q == a.m * OneMag
             r == ISqrt(q, 0, (MaxMag + OneMag) \div 2 + 1)
             s == Spacing(r, 1)
             lo == (r \div s) * s
             hi == lo + s
             pick == IF 4 * q < (lo + hi) * (lo + hi) THEN lo
                     ELSE IF 4 * q > (lo + hi) * (lo + hi) THEN hi
                     ELSE IF (lo \div s) % 2 = 0 THEN lo ELSE hi
         IN Fin(0, pick)

\* a.recip() is 1.0 / a
FRecip(a) == FDiv(One, a)

\* a < b, a <= b, a == b: false when either is NaN; the two zeros are equal.
FLt(a, b) == ~IsNaN(a) /\ ~IsNaN(b) /\ Ord(a) < Ord(b)
FLe(a, b) == ~IsNaN(a) /\ ~IsNaN(b) /\ Ord(a) <= Ord(b)
FEq(a, b) == ~IsNaN(a) /\ ~IsNaN(b) /\ Ord(a) = Ord(b)

\* --------------------------------------------------------------- shapes
RECURSIVE Product(_)
Product(s) == IF s = <<>> THEN 1 ELSE Head(s) * Product(Tail(s))

\* The static types: $t, [$t; n], [[$t; m]; n], ...
Shapes ==
    {s \in UNION {[1 .. d -> 0 .. MaxLen] : d \in 0 .. MaxDepth} : Product(s) <= MaxLeaves}

\* The index paths of the leaves of a value of the shape, and the leaf at one.
Paths(shape) ==
    {p \in [1 .. Len(shape) -> 1 .. MaxLen] : \A i \in 1 .. Len(shape) : p[i] <= shape[i]}
RECURSIVE At(_, _)
At(v, p) == IF p = <<>> THEN v ELSE At(v[Head(p)], Tail(p))

RECURSIVE Vals(_, _)
Vals(shape, L) ==
    IF shape = <<>> THEN L ELSE [1 .. Head(shape) -> Vals(Tail(shape), L)]

\* ------------------------------------- impl ArrayVectorSpace<$t> for $t
dot_leaf(a, b) == FMul(a, b)
add_leaf(a, b) == FAdd(a, b)
sub_leaf(a, b) == FSub(a, b)
mul_leaf(a, b) == FMul(a, b)
div_leaf(a, b) == FDiv(a, b)
scal_mul_leaf(a, rhs) == FMul(a, rhs)

\* clamp_leaf without the upper bound.
clamp_leaf_no_upper(a, min, max) ==
    IF ~FLe(min, max) THEN [val |-> a, panic |-> TRUE, calls |-> 1]
    ELSE [val |-> IF FLt(a, min) THEN min ELSE a, panic |-> FALSE, calls |-> 1]

\* f64::clamp: assert!(min <= max); if self < min { self = min }
\* if self > max { self = max }; self.  calls counts the calls made.
clamp_leaf(a, min, max) ==
    IF ~FLe(min, max) THEN [val |-> a, panic |-> TRUE, calls |-> 1]
    ELSE LET b == IF FLt(a, min) THEN min ELSE a
             c == IF FLt(max, b) THEN max ELSE b
         IN [val |-> c, panic |-> FALSE, calls |-> 1]

normalized_leaf(a) == One

\* ------------------------- impl ArrayVectorSpace<$t> for [V; N], V by shape
\* into_iter().zip(rhs.into_iter()).map(|(v, w)| v.dot(w)).fold(0.0, <$t>::add):
\* dot_fold is the accumulator after the first i pairs.
RECURSIVE dot(_, _, _)
RECURSIVE dot_fold(_, _, _, _)
\* dot_fold taking the pairs from the last to the first.
dot_fold_right(shape, self, rhs, i) ==
    IF i = 0 THEN PZero
    ELSE add_leaf(dot_fold(shape, self, rhs, i - 1),
                  dot(Tail(shape), self[Head(shape) + 1 - i], rhs[Head(shape) + 1 - i]))

dot_fold(shape, self, rhs, i) ==
    IF i = 0 THEN PZero
    ELSE add_leaf(dot_fold(shape, self, rhs, i - 1), dot(Tail(shape), self[i], rhs[i]))

dot(shape, self, rhs) ==
    IF shape = <<>> THEN dot_leaf(self, rhs) ELSE dot_fold(shape, self, rhs, Head(shape))

\* norm2 as the norm, not its square.
norm2_root(shape, self) == FSqrt(dot(shape, self, self))

norm2(shape, self) == dot(shape, self, self)

RECURSIVE add(_, _, _)
\* add pairing element i with element N + 1 - i.
add_reversed(shape, self, rhs) ==
    IF shape = <<>> THEN add_leaf(self, rhs)
    ELSE [i \in 1 .. Head(shape) |-> add(Tail(shape), self[i], rhs[Head(shape) + 1 - i])]

add(shape, self, rhs) ==
    IF shape = <<>> THEN add_leaf(self, rhs)
    ELSE [i \in 1 .. Head(shape) |-> add(Tail(shape), self[i], rhs[i])]

RECURSIVE sub(_, _, _)
sub(shape, self, rhs) ==
    IF shape = <<>> THEN sub_leaf(self, rhs)
    ELSE [i \in 1 .. Head(shape) |-> sub(Tail(shape), self[i], rhs[i])]

RECURSIVE mul(_, _, _)
mul(shape, self, rhs) ==
    IF shape = <<>> THEN mul_leaf(self, rhs)
    ELSE [i \in 1 .. Head(shape) |-> mul(Tail(shape), self[i], rhs[i])]

RECURSIVE div(_, _, _)
div(shape, self, rhs) ==
    IF shape = <<>> THEN div_leaf(self, rhs)
    ELSE [i \in 1 .. Head(shape) |-> div(Tail(shape), self[i], rhs[i])]

RECURSIVE scal_mul(_, _, _)
\* scal_mul handing the elements a changed factor.
scal_mul_compound(shape, self, rhs) ==
    IF shape = <<>> THEN scal_mul_leaf(self, rhs)
    ELSE [i \in 1 .. Head(shape) |-> scal_mul(Tail(shape), self[i], FMul(rhs, rhs))]

scal_mul(shape, self, rhs) ==
    IF shape = <<>> THEN scal_mul_leaf(self, rhs)
    ELSE [i \in 1 .. Head(shape) |-> scal_mul(Tail(shape), self[i], rhs)]

\* iter_mut().for_each(|v| *v = v.clamp(min, max)): clamp_each is the local
\* self after the first i elements, in index order.  A panic in an element's
\* clamp unwinds before the assignment to *v and ends the loop.
RECURSIVE clamp(_, _, _, _)
RECURSIVE clamp_each(_, _, _, _, _)
clamp_each(shape, self, min, max, i) ==
    IF i = 0 THEN [val |-> self, panic |-> FALSE, calls |-> 0]
    ELSE LET prev == clamp_each(shape, self, min, max, i - 1) IN
         IF prev.panic THEN prev
         ELSE LET r == clamp(Tail(shape), prev.val[i], min, max) IN
              [val |-> IF r.panic THEN prev.val ELSE [prev.val EXCEPT ![i] = r.val],
               panic |-> r.panic,
               calls |-> prev.calls + r.calls]

clamp(shape, self, min, max) ==
    IF shape = <<>> THEN clamp_leaf(self, min, max)
    ELSE clamp_each(shape, self, min, max, Head(shape))

\* normalized dividing by norm2, not by its square root.
normalized_no_sqrt(shape, self) ==
    IF shape = <<>> THEN normalized_leaf(self)
    ELSE scal_mul(shape, self, FRecip(norm2(shape, self)))

normalized(shape, self) ==
    IF shape = <<>> THEN normalized_leaf(self)
    ELSE LET n == FSqrt(norm2(shape, self)) IN scal_mul(shape, self, FRecip(n))

\* ---------------------------------- impl ArrayVectorSpaceMut<$t> for $t
\* Each gives the value of *self after the call.
mut_add_leaf(self, rhs) == FAdd(self, rhs)
mut_sub_leaf(self, rhs) == FSub(self, rhs)
mut_mul_leaf(self, rhs) == FMul(self, rhs)
mut_div_leaf(self, rhs) == FDiv(self, rhs)
mut_scal_mul_leaf(self, rhs) == FMul(self, rhs)
\* mut_clamp on a leaf with no check of the range.
mut_clamp_leaf_unchecked(self, min, max) ==
    LET b == IF FLt(self, min) THEN min ELSE self
        c == IF FLt(max, b) THEN max ELSE b
    IN [val |-> c, panic |-> FALSE, calls |-> 1]
\* *self = self.clamp(min, max): no assignment when clamp panics.
mut_clamp_leaf(self, min, max) == clamp_leaf(self, min, max)
\* mut_normalized on a leaf leaving the leaf as it is.
mut_normalized_leaf_keep(self) == self
mut_normalized_leaf(self) == One

\* ---------------------- impl ArrayVectorSpaceMut<$t> for [V; N], V by shape
RECURSIVE mut_add(_, _, _)
mut_add(shape, self, rhs) ==
    IF shape = <<>> THEN mut_add_leaf(self, rhs)
    ELSE [i \in 1 .. Head(shape) |-> mut_add(Tail(shape), self[i], rhs[i])]

RECURSIVE mut_sub(_, _, _)
mut_sub(shape, self, rhs) ==
    IF shape = <<>> THEN mut_sub_leaf(self, rhs)
    ELSE [i \in 1 .. Head(shape) |-> mut_sub(Tail(shape), self[i], rhs[i])]

RECURSIVE mut_mul(_, _, _)
mut_mul(shape, self, rhs) ==
    IF shape = <<>> THEN mut_mul_leaf(self, rhs)
    ELSE [i \in 1 .. Head(shape) |-> mut_mul(Tail(shape), self[i], rhs[i])]

RECURSIVE mut_div(_, _, _)
\* mut_div dividing rhs by self.
mut_div_swapped(shape, self, rhs) ==
    IF shape = <<>> THEN FDiv(rhs, self)
    ELSE [i \in 1 .. Head(shape) |-> mut_div(Tail(shape), self[i], rhs[i])]

mut_div(shape, self, rhs) ==
    IF shape = <<>> THEN mut_div_leaf(self, rhs)
    ELSE [i \in 1 .. Head(shape) |-> mut_div(Tail(shape), self[i], rhs[i])]

RECURSIVE mut_scal_mul(_, _, _)
mut_scal_mul(shape, self, rhs) ==
    IF shape = <<>> THEN mut_scal_mul_leaf(self, rhs)
    ELSE [i \in 1 .. Head(shape) |-> mut_scal_mul(Tail(shape), self[i], rhs)]

\* iter_mut().for_each(|v| v.mut_clamp(min, max)): the element is clamped in
\* place, so what an element's call wrote before a panic stays written.
RECURSIVE mut_clamp(_, _, _, _)
RECURSIVE mut_clamp_each(_, _, _, _, _)
mut_clamp_each(shape, self, min, max, i) ==
    IF i = 0 THEN [val |-> self, panic |-> FALSE, calls |-> 0]
    ELSE LET prev == mut_clamp_each(shape, self, min, max, i - 1) IN
         IF prev.panic THEN prev
         ELSE LET r == mut_clamp(Tail(shape), prev.val[i], min, max) IN
              [val |-> [prev.val EXCEPT ![i] = r.val],
               panic |-> r.panic,
               calls |-> prev.calls + r.calls]

mut_clamp(shape, self, min, max) ==
    IF shape = <<>> THEN mut_clamp_leaf(self, min, max)
    ELSE mut_clamp_each(shape, self, min, max, Head(shape))

\* mut_normalized normalizing every element on its own.
RECURSIVE mut_normalized_each(_, _)
mut_normalized_each(shape, self) ==
    IF shape = <<>> THEN mut_normalized_leaf(self)
    ELSE IF Len(shape) = 1
    THEN LET n == FSqrt(norm2(shape, self)) IN mut_scal_mul(shape, self, FRecip(n))
    ELSE [i \in 1 .. Head(shape) |-> mut_normalized_each(Tail(shape), self[i])]

mut_normalized(shape, self) ==
    IF shape = <<>> THEN mut_normalized_leaf(self)
    ELSE LET n == FSqrt(norm2(shape, self)) IN mut_scal_mul(shape, self, FRecip(n))

\* ------------------------------------------------------------- inputs
FromInt(n) == IF n < 0 THEN Fin(1, (0 - n) * OneMag) ELSE Fin(0, n * OneMag)
Half == Fin(0, OneMag \div 2)
\* Half an ulp of 1.0, the float after 1.0, the least and the greatest
\* positive finite floats.
HalfUlp == Fin(0, OneMag \div (2 ^ PBits))
OnePlus == Fin(0, OneMag + OneMag \div (2 ^ (PBits - 1)))
Tiny == Fin(0, 1)
Huge == Fin(0, MaxMag)

\* The greatest float whose square is below 1.5 units: the square rounds to the
\* smallest subnormal.
Small == Fin(0, ISqrt((3 * OneMag) \div 2, 0, OneMag))

Ordinary == {One, FromInt(-3), HalfUlp}
Special == {PZero, NZero, Inf(0), NaN, Tiny, Small, Huge, OnePlus}

RECURSIVE Fill(_, _)
Fill(shape, a) == IF shape = <<>> THEN a ELSE [i \in 1 .. Head(shape) |-> Fill(Tail(shape), a)]

\* The value whose leaves, in index order, are b, b + 1, ...
RECURSIVE Ramp(_, _)
Ramp(shape, b) ==
    IF shape = <<>> THEN FromInt(b)
    ELSE [i \in 1 .. Head(shape) |-> Ramp(Tail(shape), b + (i - 1) * Product(Tail(shape)))]

Examples(shape) ==
    IF shape = <<>> THEN {FromInt(5)}
    ELSE IF shape = <<2>> THEN {<<FromInt(3), FromInt(4)>>}
    ELSE IF shape = <<3>> THEN {<<FromInt(-1), Half, FromInt(2)>>}
    ELSE IF shape = <<2, 2>> THEN {Ramp(shape, 1)}
    ELSE {}

RECURSIVE Put(_, _, _)
Put(v, p, a) == IF p = <<>> THEN a ELSE [v EXCEPT ![Head(p)] = Put(v[Head(p)], Tail(p), a)]

\* Left operands: every value with ordinary leaves, the values with one special
\* leaf among equal ordinary leaves, and the examples.
XVals(shape) ==
    Vals(shape, Ordinary)
    \cup {Put(Fill(shape, o), p, a) : o \in Ordinary, p \in Paths(shape), a \in Special}
    \cup Examples(shape)

YVals(shape) == {Fill(shape, One), Fill(shape, PZero), Fill(shape, Inf(0)), Ramp(shape, 2)}
KVals == {FromInt(-3), OnePlus, Tiny, Inf(0), NaN}
Ranges ==
    {<<PZero, One>>, <<FromInt(-3), HalfUlp>>, <<One, One>>, <<Inf(1), Inf(0)>>, <<NZero, PZero>>,
     <<One, PZero>>, <<Inf(0), FromInt(-3)>>, <<NaN, One>>}

\* -------------------------------------------------------------- state
\* A caller holds x of static type shape.  It calls one owning operation on a
\* copy of x (op, with the operands y, k, min, max; own is what the call
\* returned, or that it panicked), and may then call the in-place operation
\* of the same name, with the same operands, on another copy of x (mop; mut
\* is that copy after the call).
VARIABLES shape, x, y, k, min, max, op, own, mop, mut
vars == <<shape, x, y, k, min, max, op, own, mop, mut>>

Ret(v) == [val |-> v, panic |-> FALSE, calls |-> 0]

Init ==
    /\ shape \in Shapes
    /\ x \in XVals(shape)
    /\ y = x
    /\ k = PZero
    /\ min = PZero
    /\ max = PZero
    /\ op = "none"
    /\ mop = "none"
    /\ own = Ret(x)
    /\ mut = Ret(x)

Own(name, rhs, r) ==
    /\ op = "none"
    /\ op' = name
    /\ y' = rhs
    /\ own' = r
    /\ UNCHANGED <<shape, x, k, min, max, mop, mut>>

Mut(name, r) ==
    /\ op = name
    /\ mop = "none"
    /\ mop' = name
    /\ mut' = r
    /\ UNCHANGED <<shape, x, y, k, min, max, op, own>>

Dot == \E rhs \in YVals(shape) : Own("dot", rhs, Ret(dot(shape, x, rhs)))
Norm2 == Own("norm2", x, Ret(norm2(shape, x)))
Add == \E rhs \in YVals(shape) : Own("add", rhs, Ret(add(shape, x, rhs)))
Sub == \E rhs \in YVals(shape) : Own("sub", rhs, Ret(sub(shape, x, rhs)))
Mul == \E rhs \in YVals(shape) : Own("mul", rhs, Ret(mul(shape, x, rhs)))
Div == \E rhs \in YVals(shape) : Own("div", rhs, Ret(div(shape, x, rhs)))
Normalized == Own("normalized", x, Ret(normalized(shape, x)))

ScalMul ==
    \E rhs \in KVals :
        /\ op = "none"
        /\ op' = "scal_mul"
        /\ k' = rhs
        /\ own' = Ret(scal_mul(shape, x, rhs))
        /\ UNCHANGED <<shape, x, y, min, max, mop, mut>>

Clamp ==
    \E r \in Ranges :
        /\ op = "none"
        /\ op' = "clamp"
        /\ min' = r[1]
        /\ max' = r[2]
        /\ own' = clamp(shape, x, r[1], r[2])
        /\ UNCHANGED <<shape, x, y, k, mop, mut>>

MutAdd == Mut("add", Ret(mut_add(shape, x, y)))
MutSub == Mut("sub", Ret(mut_sub(shape, x, y)))
MutMul == Mut("mul", Ret(mut_mul(shape, x, y)))
MutDiv == Mut("div", Ret(mut_div(shape, x, y)))
MutScalMul == Mut("scal_mul", Ret(mut_scal_mul(shape, x, k)))
MutClamp == Mut("clamp", mut_clamp(shape, x, min, max))
MutNormalized == Mut("normalized", Ret(mut_normalized(shape, x)))

Next ==
    \/ Dot
    \/ Norm2
    \/ Add
    \/ Sub
    \/ Mul
    \/ Div
    \/ ScalMul
    \/ Clamp
    \/ Normalized
    \/ MutAdd
    \/ MutSub
    \/ MutMul
    \/ MutDiv
    \/ MutScalMul
    \/ MutClamp
    \/ MutNormalized

Spec == Init /\ [][Next]_vars

TypeOK ==
    /\ shape \in Shapes
    /\ \A p \in Paths(shape) : At(x, p) \in Floats

\* ------------------------------------------------------------- claims
RECURSIVE HasShape(_, _)
HasShape(sh, v) ==
    IF sh = <<>> THEN v \in Floats
    ELSE /\ DOMAIN v = 1 .. Head(sh)
         /\ \A i \in 1 .. Head(sh) : HasShape(Tail(sh), v[i])

Composite == shape # <<>>

\* C1: for a composite x and operands of the same shape, the owning and the
\* in-place variant of add, sub, mul, div, scal_mul and clamp agree: the value
\* the owning call returns is the value the copy of x holds after the in-place
\* call, leaf for leaf and bit for bit (and clamp panics in one exactly when
\* it panics in the other).
C1_OwnMutAgree ==
    (Composite /\ mop \in {"add", "sub", "mul", "div", "scal_mul", "clamp"})
        => /\ own.panic = mut.panic
           /\ ~own.panic => own.val = mut.val

C1_Witness ==
    /\ mop = "div"
    /\ shape = <<2, 2>>
    /\ y = Ramp(shape, 2)
    /\ mut.val # x
    /\ \A p \in Paths(shape) : At(mut.val, p).k = "fin"

\* The scalar operation an element-wise operation stands for.
Scalar(name, a, b) ==
    CASE name = "add" -> FAdd(a, b)
      [] name = "sub" -> FSub(a, b)
      [] name = "mul" -> FMul(a, b)
      [] name = "div" -> FDiv(a, b)

\* C2: add, sub, mul and div keep the shape of x, and the leaf of the result at
\* every index path is the scalar +, -, *, / of the leaves of x and y at that
\* same path; on a scalar the result is a + b, a - b, a * b, a / b.
C2_Elementwise ==
    op \in {"add", "sub", "mul", "div"}
        => /\ HasShape(shape, own.val)
           /\ \A p \in Paths(shape) : At(own.val, p) = Scalar(op, At(x, p), At(y, p))

C2_Witness ==
    /\ op = "add"
    /\ shape = <<2, 2>>
    /\ x = <<<<FromInt(1), FromInt(2)>>, <<FromInt(3), FromInt(4)>>>>
    /\ y = Fill(shape, One)
    /\ own.val = <<<<FromInt(2), FromInt(3)>>, <<FromInt(4), FromInt(5)>>>>

\* dot as the claim states it: the product on a scalar; on an array the sum
\* ((0 + d1) + d2) + ... + dN of the dots of the paired elements, taken from
\* the first index to the last.
RECURSIVE DotSpec(_, _, _)
RECURSIVE SumFrom(_, _, _, _, _)
SumFrom(acc, sh, a, b, i) ==
    IF i > Head(sh) THEN acc
    ELSE SumFrom(FAdd(acc, DotSpec(Tail(sh), a[i], b[i])), sh, a, b, i + 1)
DotSpec(sh, a, b) ==
    IF sh = <<>> THEN FMul(a, b) ELSE SumFrom(PZero, sh, a, b, 1)

\* C3: dot on a scalar is the product, and on an array of length N the left
\* fold from 0, in increasing index order, of the dots of the elements paired
\* at the same index, each inner dot reduced before it is added; it is 0 for
\* N = 0.
C3_DotLeftFold ==
    op = "dot"
        => /\ own.val = DotSpec(shape, x, y)
           /\ (Composite /\ Head(shape) = 0) => own.val = PZero

\* (1 + h) + h is 1 and 1 + (h + h) is not: the order of the fold shows.
C3_Witness ==
    /\ op = "dot"
    /\ shape = <<3>>
    /\ x = <<One, HalfUlp, HalfUlp>>
    /\ y = Fill(shape, One)
    /\ own.val = One
    /\ FAdd(One, FAdd(HalfUlp, HalfUlp)) # One

\* C4: norm2(x) is dot(x, x), for a scalar and for every composite, and the
\* call leaves x as it was.
C4_Norm2IsSelfDot ==
    [][op' = "norm2" /\ op = "none" => own'.val = dot(shape, x, x) /\ x' = x /\ shape' = shape]_vars

C4_Witness ==
    /\ op = "norm2"
    /\ shape = <<2, 2>>
    /\ x = Ramp(shape, 1)
    /\ own.val = FromInt(30)

Ulp1 == OneMag \div (2 ^ (PBits - 1))
\* Within n units in the last place of 1.0 of 1.0.
NearOne(a, n) ==
    /\ a.k = "fin"
    /\ a.s = 0
    /\ a.m - OneMag <= n * Ulp1
    /\ OneMag - a.m <= n * Ulp1
IsNormal(a) == a.k = "fin" /\ a.m >= MinNormalMag
\* The rounding errors of the two sums, the square root, the reciprocal and
\* the products add up to about 2N + 8 roundings, N + 4 ulps of 1.0.
Tolerance == Product(shape) + 4

\* The decimal literal num/den, rounded as the compiler rounds it.
Lit(num, den) == Pack(0, num * OneMag, den)
ThreeFour == <<FromInt(3), FromInt(4)>>
Dist(a, b) == IF a.m >= b.m THEN a.m - b.m ELSE b.m - a.m

\* C5 as stated: normalized on a composite returns a value whose norm2 is 1
\* within tolerance whenever the norm2 of the input is strictly positive, and
\* [3.0, 4.0].normalized() == [0.6, 0.8].
C5_AsStated ==
    /\ (Composite /\ op = "normalized" /\ FLt(PZero, norm2(shape, x)))
           => NearOne(norm2(shape, own.val), Tolerance)
    /\ (shape = <<2>> /\ op = "normalized" /\ x = ThreeFour)
           => own.val = <<Lit(3, 5), Lit(4, 5)>>

\* C5, amended: normalized on a composite returns a value whose norm2 is 1
\* within tolerance whenever the norm2 of the input is a finite normal number
\* (the sum of squares has neither overflowed nor fallen among the
\* subnormals), and [3.0, 4.0].normalized() is [0.6, 0.8] to within an ulp.
C5_NormalizedUnit ==
    /\ (Composite /\ op = "normalized" /\ FLt(PZero, norm2(shape, x)) /\ IsNormal(norm2(shape, x)))
           => NearOne(norm2(shape, own.val), Tolerance)
    /\ (shape = <<2>> /\ op = "normalized" /\ x = ThreeFour)
           => /\ \A i \in 1 .. 2 : own.val[i].k = "fin" /\ own.val[i].s = 0
              /\ 2 * Dist(own.val[1], Lit(3, 5)) <= Ulp1
              /\ 2 * Dist(own.val[2], Lit(4, 5)) <= Ulp1

C5_Witness ==
    /\ op = "normalized"
    /\ shape = <<2>>
    /\ x = ThreeFour
    /\ norm2(shape, x) = FromInt(25)
    /\ own.val = scal_mul(shape, x, FRecip(FromInt(5)))
    /\ NearOne(norm2(shape, own.val), Tolerance)

\* f64::min and f64::max: the other operand when one is NaN.
FMin(a, b) == IF IsNaN(a) THEN b ELSE IF IsNaN(b) THEN a ELSE IF FLt(b, a) THEN b ELSE a
FMax(a, b) == IF IsNaN(a) THEN b ELSE IF IsNaN(b) THEN a ELSE IF FLt(a, b) THEN b ELSE a

\* C6 as stated: for min <= max, every leaf of clamp(x, min, max) equals
\* max(min, min(e, max)) of the leaf e of x at the same path.
C6_AsStated ==
    (op = "clamp" /\ FLe(min, max))
        => /\ ~own.panic
           /\ HasShape(shape, own.val)
           /\ \A p \in Paths(shape) :
                  FEq(At(own.val, p), FMax(min, FMin(At(x, p), max)))

\* C6, amended: for min <= max, clamp keeps the shape; every leaf of the
\* result that comes from a leaf e of x that is not NaN equals
\* max(min, min(e, max)), and a NaN leaf stays NaN.
C6_ClampLeaves ==
    (op = "clamp" /\ FLe(min, max))
        => /\ ~own.panic
           /\ HasShape(shape, own.val)
           /\ \A p \in Paths(shape) :
                  IF IsNaN(At(x, p)) THEN IsNaN(At(own.val, p))
                  ELSE FEq(At(own.val, p), FMax(min, FMin(At(x, p), max)))

C6_Witness ==
    /\ op = "clamp"
    /\ shape = <<3>>
    /\ x = <<FromInt(-1), Half, FromInt(2)>>
    /\ min = PZero
    /\ max = One
    /\ own = [val |-> <<PZero, Half, One>>, panic |-> FALSE, calls |-> 3]

\* C7: x.scal_mul(k) has the shape of x and its leaf at every index path is
\* the leaf of x at that path times k, the same k at every level.
C7_ScalMulLeaves ==
    (Composite /\ op = "scal_mul")
        => /\ HasShape(shape, own.val)
           /\ \A p \in Paths(shape) : At(own.val, p) = FMul(At(x, p), k)

C7_Witness ==
    /\ op = "scal_mul"
    /\ shape = <<2, 2>>
    /\ x = Ramp(shape, 1)
    /\ k = FromInt(-3)
    /\ own.val = <<<<FromInt(-3), FromInt(-6)>>, <<FromInt(-9), FromInt(-12)>>>>

\* C8: on a scalar, normalized() returns 1 and mut_normalized sets the scalar
\* to 1, whatever its value was.
C8_LeafNormalizedOne ==
    /\ (shape = <<>> /\ op = "normalized") => own.val = One
    /\ (shape = <<>> /\ mop = "normalized") => mut.val = One

C8_Witness ==
    /\ shape = <<>>
    /\ mop = "normalized"
    /\ x = FromInt(-3)
    /\ own.val = One
    /\ mut.val = One

\* C9: for a composite x, x.normalized() and x after mut_normalized() are
\* x.scal_mul(1/n), n the square root of the norm2 of the whole of x: every
\* leaf is the leaf of x times that one factor.
C9_NormalizedIsScaling ==
    LET f == FRecip(FSqrt(DotSpec(shape, x, x))) IN
    /\ (Composite /\ op = "normalized")
           => /\ own.val = scal_mul(shape, x, f)
              /\ \A p \in Paths(shape) : At(own.val, p) = FMul(At(x, p), f)
    /\ (Composite /\ mop = "normalized")
           => /\ mut.val = scal_mul(shape, x, f)
              /\ \A p \in Paths(shape) : At(mut.val, p) = FMul(At(x, p), f)

C9_Witness ==
    /\ mop = "normalized"
    /\ shape = <<2, 2>>
    /\ x = Ramp(shape, 1)
    /\ \A p \in Paths(shape) : At(mut.val, p).k = "fin" /\ At(mut.val, p) # One
    /\ own.val = mut.val

\* C10: mut_clamp with min > max on a composite with a leaf panics in the
\* first call of the scalar clamp, with no leaf of x written; on a composite
\* with no leaf, mut_clamp and clamp return and change nothing.
C10_InvertedRange ==
    (Composite /\ mop = "clamp" /\ FLt(max, min))
        => IF Product(shape) > 0
           THEN mut = [val |-> x, panic |-> TRUE, calls |-> 1]
           ELSE /\ mut = [val |-> x, panic |-> FALSE, calls |-> 0]
                /\ own = [val |-> x, panic |-> FALSE, calls |-> 0]

C10_Witness ==
    /\ mop = "clamp"
    /\ shape = <<2, 2>>
    /\ FLt(max, min)
    /\ mut = [val |-> x, panic |-> TRUE, calls |-> 1]
====
